---- MODULE Spec2Model ----
(***************************************************************************)
(* Payment ledger, subscription manager and settlement handlers of the     *)
(* subscription bot (src/db/DALS/payment.py, src/db/DALS/subscription.py,  *)
(* src/payments/*.py, src/handlers/payment.py, src/webhook.py).            *)
(*                                                                         *)
(* The state is the content of the two tables the handlers write, the      *)
(* clock, and a record of the last handler call.  Under Spec every handler *)
(* is one action; under SpecTasks the provider notification handler and    *)
(* the expiry sweep run as tasks that are suspended at every database      *)
(* call, one action per call; under SpecPrice the price of a purchase is   *)
(* computed for a range of plans, payment methods and currencies.          *)
(* A statement run through Database.fetchrow / fetchval / fetch is         *)
(* executed in a session that is closed without commit, so its row changes *)
(* are rolled back; only Database.execute and the explicit                 *)
(* session.commit() calls make a change durable.                           *)
(***************************************************************************)
EXTENDS Integers, Sequences, FiniteSets, TLC

VARIABLES payments, subscriptions, returned, now, calls, last, tasks, quote

vars == <<payments, subscriptions, returned, now, calls, last, tasks, quote>>

----------------------------------------------------------------------------
(* Bounds *)

MaxCalls == 2
MaxDay == 1
DayLen == 2

MaxNow == (MaxDay + 1) * DayLen - 1

----------------------------------------------------------------------------
(* Catalog and identifiers *)

Users == 1..2
NoUser == 0
Plans == 1..3
\* channel_id of each plan, as TariffDAL.create_tariff stores it and the DALs read it
PlanChannel == <<1, 1, 2>>
PlanDuration == <<1, 2, 1>>
\* TariffPlan.price, in whole units of the currency
PlanPrice == <<999, 1000, 999>>
Channels == {PlanChannel[p] : p \in Plans}
ExtIds == 1..1
NoExt == 0
NoTime == -1
NoNotes == "null"
NoPay == 0
NoChannel == 0

\* select(Payment, User, TariffPlan, Currency, PaymentMethod): columns of a details row
DetailsColumns == 5
\* payment, user, plan, currency = payment_details
TinkoffUnpackTargets == 4
\* payment, user, plan, currency = payment_data
CryptoUnpackTargets == 4
\* payment, user, plan, currency, payment_method = result
AdminUnpackTargets == 5

----------------------------------------------------------------------------
(* Dates *)

\* timedelta(days=n)
timedelta(n) == n * DayLen

\* dt.replace(hour=0, minute=0, second=0, microsecond=0)
StartOfDay(t) == (t \div DayLen) * DayLen

\* dt.replace(hour=23, minute=59, second=59)
EndOfDay(t) == (t \div DayLen) * DayLen + (DayLen - 1)

----------------------------------------------------------------------------
(* Database: what a statement leaves behind once its session is closed *)

\* variant: the session of execute is closed without commit
Database_execute_nocommit(before, after) == before

\* async with session: execute(query); commit()
Database_execute(before, after) == after

\* variant: the session of fetchrow commits before it is closed
Database_fetchrow_commits(before, after) == after

\* async with session: execute(query); return res.first()   -- no commit
Database_fetchrow(before, after) == before

\* async with session: execute(query); return res.scalar()  -- no commit
Database_fetchval(before, after) == before

\* async with session: execute(query); return res.all()     -- no commit
Database_fetch(before, after) == before

----------------------------------------------------------------------------
(* PaymentMethodDAL: prices.  Amounts are counted in thousandths of a unit *)
(* of the currency, a price_modifier in tenths of a percent, a fixed_fee   *)
(* in hundredths of a unit, so that every product below is exact.          *)

Thousandths == 1000

\* a payment method row; NoMethod: get_by_id found none
Method(modifier, fee) == [price_modifier |-> modifier, fixed_fee |-> fee]
NoMethod == [price_modifier |-> -1, fixed_fee |-> -1]

\* the methods init_payment_methods creates: price_modifier = 0, fixed_fee = 0
PaymentMethods ==
    [manual |-> Method(0, 0), youkassa |-> Method(0, 0), tinkoff |-> Method(0, 0),
     cryptobot |-> Method(0, 0), stars |-> Method(0, 0)]

\* base_price * (1 + method.price_modifier / 100) + method.fixed_fee
ModifiedPrice(base_price, method) ==
    base_price * (Thousandths + method.price_modifier) + method.fixed_fee * 10

\* x rounded to a multiple of g, a tie going to the even multiple
RoundHalfEven(x, g) ==
    LET q == x \div g
        r == x % g
    IN  IF 2 * r < g THEN q * g
        ELSE IF 2 * r > g THEN (q + 1) * g
        ELSE IF q % 2 = 0 THEN q * g ELSE (q + 1) * g

\* thousandths in one step of a number kept to the given decimals (1 when finer than a
\* thousandth)
Granule(decimals) ==
    CASE decimals = 0 -> 1000
      [] decimals = 1 -> 100
      [] decimals = 2 -> 10
      [] OTHER -> 1

\* round(x, ndigits)
round(x, ndigits) == RoundHalfEven(x, Granule(ndigits))

\* PaymentMethodDAL.calculate_price_with_method
calculate_price_with_method(base_price, method) ==
    IF method = NoMethod
    THEN base_price * Thousandths
    ELSE round(ModifiedPrice(base_price, method), 2)

\* payments/youkassa.py: object.amount.value of a notification, the amount the invoice of
\* the plan was created with
YooAmount(p) == calculate_price_with_method(PlanPrice[p], PaymentMethods.youkassa)

\* payments/stars.py: stars_amount = int(plan.price / 5)
stars_amount(p) == (PlanPrice[p] \div 5) * Thousandths

\* the amount a handler has computed for the user: none yet
NoPrice == -1
NoQuote == [base_price |-> 0, method |-> NoMethod, currency |-> "none", price |-> NoPrice]

----------------------------------------------------------------------------
(* PaymentDAL *)

NoRow == [user |-> NoUser, plan |-> 0, method |-> "none", external_id |-> NoExt,
          status |-> "none", processed_at |-> NoTime, notes |-> NoNotes]

\* method: code of the row's payment_method_id
PaymentRow(u, p, m, amount, ext, st) ==
    [user |-> u, plan |-> p, method |-> m, amount |-> amount, external_id |-> ext,
     status |-> st, processed_at |-> NoTime, notes |-> NoNotes]

PaymentDAL_get_by_id(P, id) == IF id \in DOMAIN P THEN id ELSE NoPay

PaymentDAL_get_by_external_id(P, ext) ==
    LET hit == {i \in DOMAIN P : P[i].external_id = ext}
    IN  IF hit = {} THEN NoPay ELSE CHOOSE i \in hit : \A j \in hit : i <= j

PaymentDAL_create_payment(P, u, p, m, amount, ext, st) ==
    Append(P, PaymentRow(u, p, m, amount, ext, st))

\* parameters of PaymentDAL.create_payment, and those without a default
CreatePaymentParams ==
    {"user_id", "plan_id", "payment_method_id", "currency_id", "amount",
     "screenshot_file_id", "external_id", "status"}
CreatePaymentRequired == {"user_id", "plan_id", "payment_method_id", "currency_id", "amount"}

\* a call binds (no TypeError) when it names only parameters and every required one
BindOk(kwargs) == kwargs \subseteq CreatePaymentParams /\ CreatePaymentRequired \subseteq kwargs

\* keyword arguments of the create_payment calls of the provider routes
TinkoffRouteKwargs == {"user_id", "plan_id", "currency_id", "amount", "payment_method"}
CryptoRouteKwargs == {"user_id", "plan_id", "currency_id", "amount", "payment_method"}
StarsKwargs ==
    {"user_id", "plan_id", "currency_id", "amount", "payment_method", "external_id",
     "status", "processed_at"}

\* update(Payment).where(id == payment_id).values(**kwargs).returning(Payment)
UpdateValues(P, id, vals) ==
    IF id \in DOMAIN P
    THEN [P EXCEPT ![id] = [f \in DOMAIN P[id] |->
                               IF f \in DOMAIN vals THEN vals[f] ELSE P[id][f]]]
    ELSE P

PaymentDAL_update_payment(P, id, vals) ==
    LET after == UpdateValues(P, id, vals)
    IN  [db  |-> Database_fetchrow(P, after),
         row |-> IF id \in DOMAIN P THEN after[id] ELSE NoRow]

PaymentDAL_approve_payment(P, id, t) ==
    LET after == UpdateValues(P, id, [status |-> "approved", processed_at |-> t])
    IN  IF id \notin DOMAIN P
        THEN [db |-> P, row |-> NoRow]
        ELSE [db |-> Database_execute(P, after), row |-> after[id]]

PaymentDAL_reject_payment(P, id, t, reason) ==
    LET after == UpdateValues(P, id, [status |-> "rejected", processed_at |-> t,
                                      notes |-> reason])
    IN  IF id \notin DOMAIN P
        THEN [db |-> P, row |-> NoRow]
        ELSE [db |-> Database_fetchrow(P, after), row |-> after[id]]

PaymentDAL_cancel_payment(P, id, t) ==
    LET after == UpdateValues(P, id, [status |-> "cancelled", processed_at |-> t])
    IN  [db |-> Database_fetchval(P, after), ok |-> id \in DOMAIN P]

----------------------------------------------------------------------------
(* SubscriptionDAL *)

\* variant: rows are matched on the plan itself instead of the plan's channel
OnChannel_samePlan(row, p) == row.plan = p

\* TariffPlan.channel_id == plan.channel_id
OnChannel(row, p) == PlanChannel[row.plan] = PlanChannel[p]

\* rows of the user on the plan's channel
ChannelRows(S, u, p) == {i \in DOMAIN S : S[i].user = u /\ OnChannel(S[i], p)}

ExistingActive(S, u, p) == {i \in ChannelRows(S, u, p) : S[i].is_active}

\* variant: the start date keeps the time of day
NewStartDate_timeOfDay(t) == t

\* start_date = now at 00:00:00
NewStartDate(t) == StartOfDay(t)

\* variant: the new end date is not moved to the end of its day
NewEndDate_noEndOfDay(t, p) == StartOfDay(t) + timedelta(PlanDuration[p])

\* end_date = (start_date + timedelta(days=duration_days)) at 23:59:59
NewEndDate(t, p) == EndOfDay(NewStartDate(t) + timedelta(PlanDuration[p]))

\* new_end_date = (existing.end_date + timedelta(days=duration_days)) at 23:59:59
ExtendedEndDate(d, p) == EndOfDay(d + timedelta(PlanDuration[p]))

SubscriptionRow(u, p, s, e, a) ==
    [user |-> u, plan |-> p, start_date |-> s, end_date |-> e, is_active |-> a]

\* update(Subscription).where(user, plan in plans of the channel).values(is_active=False)
DeactivateChannel(S, u, p) ==
    [i \in DOMAIN S |-> IF i \in ChannelRows(S, u, p)
                        THEN [S[i] EXCEPT !.is_active = FALSE] ELSE S[i]]

\* the row fetchrow() hands back: res.first() of an unordered select
FirstRow(hit) == CHOOSE i \in hit : \A j \in hit : i <= j

SubscriptionDAL_create_subscription(S, u, p, t) ==
    LET hit == ExistingActive(S, u, p)
    IN  IF hit # {}
        THEN LET id    == FirstRow(hit)
                 after == [S EXCEPT ![id].end_date = ExtendedEndDate(S[id].end_date, p),
                                    ![id].is_active = TRUE]
             IN  [db |-> Database_fetchrow(S, after), row |-> after[id]]
        ELSE LET off == Database_execute(S, DeactivateChannel(S, u, p))
                 new == SubscriptionRow(u, p, NewStartDate(t), NewEndDate(t, p), TRUE)
             IN  [db |-> Append(off, new), row |-> new]

\* select ... where User.user_id == telegram_id and is_active: the rows fetchrow() picks from
SubscriptionDAL_get_by_telegram_id(S, u) == {i \in DOMAIN S : S[i].user = u /\ S[i].is_active}

\* plan.channel_id == channel_id, for the one row get_by_telegram_id handed back
check_user_channel_access(S, i, c) == PlanChannel[S[i].plan] = c

Expired(S, t) == {i \in DOMAIN S : S[i].is_active /\ S[i].end_date < t}

SubscriptionDAL_deactivate_subscription(S, id) ==
    LET after == IF id \in DOMAIN S THEN [S EXCEPT ![id].is_active = FALSE] ELSE S
    IN  [db |-> Database_fetchval(S, after), ok |-> id \in DOMAIN S]

SubscriptionDAL_deactivate_expired(S, t) ==
    LET after == [i \in DOMAIN S |-> IF i \in Expired(S, t)
                                     THEN [S[i] EXCEPT !.is_active = FALSE] ELSE S[i]]
    IN  [db |-> Database_fetch(S, after), count |-> Cardinality(Expired(S, t))]

RECURSIVE DeactivateEach(_, _)
DeactivateEach(S, ids) ==
    IF ids = {} THEN S
    ELSE LET id == FirstRow(ids)
         IN  DeactivateEach(SubscriptionDAL_deactivate_subscription(S, id).db, ids \ {id})

----------------------------------------------------------------------------
(* Record of a handler call *)

Call(op, pid, ext, u, p, paid, auth, res, act, seen) ==
    [op |-> op, pid |-> pid, ext |-> ext, user |-> u, plan |-> p,
     paid |-> paid, auth |-> auth, res |-> res, act |-> act, seen |-> seen,
     fail |-> "none", chat |-> 0,
     at |-> now, pays0 |-> payments, subs0 |-> subscriptions, returned0 |-> returned]

NoCall ==
    [op |-> "none", pid |-> NoPay, ext |-> NoExt, user |-> NoUser, plan |-> 0,
     paid |-> FALSE, auth |-> FALSE, res |-> FALSE, act |-> 0, seen |-> "none",
     fail |-> "none", chat |-> 0,
     at |-> NoTime, pays0 |-> <<>>, subs0 |-> <<>>, returned0 |-> <<>>]

\* status of each payment in the row most recently handed back by an UPDATE ... RETURNING
Returned(R, id, st) == IF id \in DOMAIN R THEN [R EXCEPT ![id] = st] ELSE R


\* "a, b, c, d = row" raises ValueError unless the row has as many columns as targets
UnpackOk(targets) == targets = DetailsColumns

\* state.get_data().get("payment_id"): no handler ever stores this key
FsmPaymentId == NoPay

\* what may go wrong once the ledger entry is approved: create_subscription raises, or the
\* calls that follow it (unban_chat_member, send_message) raise
Failures == {"none", "activate", "notify"}

\* the record of a call in which step f failed
Failed(c, f) == [c EXCEPT !.fail = f]

----------------------------------------------------------------------------
(* Initial state: the tables as an earlier run left them.  The ledger holds *)
(* at most one manual payment awaiting review, the subscriptions table at   *)
(* most one row.                                                            *)

InitRows ==
    {SubscriptionRow(1, p, 0, EndOfDay(d), a) :
        p \in {1}, d \in {0, DayLen}, a \in BOOLEAN}

InitPayments ==
    {PaymentRow(1, 2, "manual", calculate_price_with_method(PlanPrice[2], PaymentMethods.manual),
                NoExt, "pending")}

Init ==
    /\ payments \in {<<>>} \cup {<<r>> : r \in InitPayments}
    /\ returned = [i \in DOMAIN payments |-> payments[i].status]
    /\ subscriptions \in {<<>>} \cup {<<r>> : r \in InitRows}
    /\ now = DayLen
    /\ calls = 0
    /\ last = NoCall
    /\ tasks = <<>>
    /\ quote = NoQuote

----------------------------------------------------------------------------
(* Handlers *)

\* the clock advances
Tick ==
    /\ now < MaxNow
    /\ now' = now + 1
    /\ UNCHANGED <<payments, subscriptions, returned, calls, last, tasks, quote>>

\* handlers/subscription.py process_payment_screenshot: manual payment request
process_payment_screenshot(u, p) ==
    /\ calls < MaxCalls
    /\ calls' = calls + 1
    /\ UNCHANGED <<tasks, quote>>
    /\ LET final_price == calculate_price_with_method(PlanPrice[p], PaymentMethods.manual)
       IN  payments' = PaymentDAL_create_payment(payments, u, p, "manual", final_price,
                                                 NoExt, "pending")
    /\ returned' = Append(returned, "pending")
    /\ last' = Call("manual", Len(payments) + 1, NoExt, u, p, FALSE, FALSE, TRUE, 0, "pending")
    /\ UNCHANGED <<subscriptions, now>>

\* payments/youkassa.py yookassa_payment_route; ext = NoExt: invoice creation failed
yookassa_payment_route(u, p, ext) ==
    LET final_price == calculate_price_with_method(PlanPrice[p], PaymentMethods.youkassa)
        created == PaymentDAL_create_payment(payments, u, p, "youkassa", final_price,
                                             NoExt, "pending")
        id      == Len(created)
        upd     == PaymentDAL_update_payment(created, id, [external_id |-> ext])
    IN  /\ calls < MaxCalls
        /\ calls' = calls + 1
        /\ UNCHANGED <<tasks, quote>>
        /\ payments' = IF ext = NoExt THEN created ELSE upd.db
        /\ returned' = Append(returned, "pending")
        /\ last' = Call("yoo_route", id, ext, u, p, FALSE, FALSE, ext # NoExt, 0, "pending")
        /\ UNCHANGED <<subscriptions, now>>

\* handlers/payment.py approve_payment: the admin presses "approve"
\* an exception raised after PaymentDAL.approve_payment leaves the handler uncaught
approve_payment(admin, pid, fail) ==
    LET r == PaymentDAL_approve_payment(payments, pid, now)
        s == SubscriptionDAL_create_subscription(subscriptions, r.row.user, r.row.plan, now)
    IN  /\ calls < MaxCalls
        /\ calls' = calls + 1
        /\ UNCHANGED <<tasks, quote>>
        /\ UNCHANGED now
        /\ IF ~admin \/ r.row = NoRow
           THEN /\ last' = Call("approve", pid, NoExt, NoUser, 0, FALSE, admin, FALSE, 0, "none")
                /\ UNCHANGED <<payments, subscriptions, returned>>
           ELSE /\ payments' = r.db
                /\ returned' = Returned(returned, pid, r.row.status)
                /\ IF UnpackOk(AdminUnpackTargets) /\ fail # "activate"
                   THEN /\ subscriptions' = s.db
                        /\ last' = Failed(Call("approve", pid, NoExt, r.row.user, r.row.plan,
                                               FALSE, admin, fail = "none", 1, r.row.status),
                                          fail)
                   ELSE /\ UNCHANGED subscriptions
                        /\ last' = Failed(Call("approve", pid, NoExt, r.row.user, r.row.plan,
                                               FALSE, admin, FALSE, 0, r.row.status),
                                          fail)

\* handlers/payment.py reject_payment: the admin presses "reject"
reject_payment(admin, pid) ==
    LET r == PaymentDAL_reject_payment(payments, pid, now, NoNotes)
    IN  /\ calls < MaxCalls
        /\ calls' = calls + 1
        /\ UNCHANGED <<tasks, quote>>
        /\ UNCHANGED <<subscriptions, now>>
        /\ IF ~admin \/ r.row = NoRow
           THEN /\ last' = Call("reject", pid, NoExt, NoUser, 0, FALSE, admin, FALSE, 0, "none")
                /\ UNCHANGED <<payments, returned>>
           ELSE /\ payments' = r.db
                /\ returned' = Returned(returned, pid, r.row.status)
                /\ last' = Call("reject", pid, NoExt, r.row.user, r.row.plan,
                                FALSE, admin, TRUE, 0, r.row.status)

\* handlers/subscription.py cancel_payment_process: the user presses "Cancel"
cancel_payment_process(u) ==
    LET c == PaymentDAL_cancel_payment(payments, FsmPaymentId, now)
    IN  /\ calls < MaxCalls
        /\ calls' = calls + 1
        /\ UNCHANGED <<tasks, quote>>
        /\ UNCHANGED <<subscriptions, now>>
        /\ IF FsmPaymentId # NoPay
           THEN /\ payments' = c.db
                /\ returned' = Returned(returned, FsmPaymentId, "cancelled")
                /\ last' = Call("cancel", FsmPaymentId, NoExt, u, 0, FALSE, FALSE, c.ok, 0,
                                IF c.ok THEN "cancelled" ELSE "none")
           ELSE /\ UNCHANGED <<payments, returned>>
                /\ last' = Call("cancel", NoPay, NoExt, u, 0, FALSE, FALSE, FALSE, 0, "none")


\* a call that returned before touching the tables
Dropped(op, paid, auth) ==
    Call(op, NoPay, NoExt, NoUser, 0, paid, auth, FALSE, 0, "none")

\* webhook.py yoo_notify -> payments/youkassa.py process_payment_notification
\* n.paid: event = payment.succeeded, status = succeeded and paid; n.auth: the sender is YooKassa
\* an exception of create_subscription is caught by the outer except (return False), one of
\* unban_chat_member / send_message by the inner except (return True)
yoo_notify(n, fail) ==
    LET pid == PaymentDAL_get_by_external_id(payments, n.ext)
        upd == PaymentDAL_update_payment(payments, pid,
                                         [status |-> "approved", processed_at |-> now])
        s   == SubscriptionDAL_create_subscription(subscriptions, n.user, n.plan, now)
    IN  /\ calls < MaxCalls
        /\ calls' = calls + 1
        /\ UNCHANGED <<tasks, quote>>
        /\ UNCHANGED now
        /\ IF ~n.paid \/ n.user = NoUser
           THEN /\ last' = Dropped("yoo", n.paid, n.auth)
                /\ UNCHANGED <<payments, subscriptions, returned>>
           ELSE /\ IF pid # NoPay
                   THEN /\ payments' = upd.db
                        /\ returned' = Returned(returned, pid, upd.row.status)
                   ELSE /\ payments' = PaymentDAL_create_payment(payments, n.user, n.plan,
                                          "youkassa", YooAmount(n.plan), n.ext, "approved")
                        /\ returned' = Append(returned, "approved")
                /\ subscriptions' = IF fail = "activate" THEN subscriptions ELSE s.db
                /\ last' = Failed(Call("yoo", IF pid # NoPay THEN pid ELSE Len(payments) + 1,
                                       n.ext, n.user, n.plan, n.paid, n.auth,
                                       fail # "activate", IF fail = "activate" THEN 0 ELSE 1,
                                       "approved"),
                                  fail)

\* webhook.py tinkoff_notify -> payments/tinkoff.py process_payment_notification
\* n.paid: Success and Status = CONFIRMED; n.auth: Token matches get_token_verify
tinkoff_notify(n) ==
    LET pid == PaymentDAL_get_by_id(payments, n.order)
        upd == PaymentDAL_update_payment(payments, pid,
                   [external_id |-> n.ext, status |-> "approved", processed_at |-> now])
        s   == SubscriptionDAL_create_subscription(subscriptions, payments[pid].user,
                                                   payments[pid].plan, now)
    IN  /\ calls < MaxCalls
        /\ calls' = calls + 1
        /\ UNCHANGED <<tasks, quote>>
        /\ UNCHANGED now
        /\ IF ~n.auth \/ ~n.paid \/ pid = NoPay
           THEN /\ last' = Dropped("tinkoff", n.paid, n.auth)
                /\ UNCHANGED <<payments, subscriptions, returned>>
           ELSE /\ payments' = upd.db
                /\ returned' = Returned(returned, pid, upd.row.status)
                /\ IF UnpackOk(TinkoffUnpackTargets)
                   THEN /\ subscriptions' = s.db
                        /\ last' = Call("tinkoff", pid, n.ext, payments[pid].user,
                                        payments[pid].plan, n.paid, n.auth, TRUE, 1, "approved")
                   ELSE /\ UNCHANGED subscriptions
                        /\ last' = Call("tinkoff", pid, n.ext, payments[pid].user,
                                        payments[pid].plan, n.paid, n.auth, FALSE, 0, "approved")

\* webhook.py cryptobot_notify -> payments/cryptobot.py process_crypto_payment
\* n.paid: status = paid; n.auth: the sender is CryptoBot (the handler never looks)
cryptobot_notify(n) ==
    LET pid == PaymentDAL_get_by_id(payments, n.order)
        r   == PaymentDAL_approve_payment(payments, pid, now)
        s   == SubscriptionDAL_create_subscription(subscriptions, payments[pid].user,
                                                   payments[pid].plan, now)
    IN  /\ calls < MaxCalls
        /\ calls' = calls + 1
        /\ UNCHANGED <<tasks, quote>>
        /\ UNCHANGED now
        /\ IF ~n.paid \/ pid = NoPay
           THEN /\ last' = Dropped("crypto", n.paid, n.auth)
                /\ UNCHANGED <<payments, subscriptions, returned>>
           ELSE IF ~UnpackOk(CryptoUnpackTargets)
           THEN /\ last' = Call("crypto", pid, NoExt, payments[pid].user, payments[pid].plan,
                                n.paid, n.auth, FALSE, 0, "none")
                /\ UNCHANGED <<payments, subscriptions, returned>>
           ELSE /\ payments' = r.db
                /\ returned' = Returned(returned, pid, r.row.status)
                /\ subscriptions' = s.db
                /\ last' = Call("crypto", pid, NoExt, payments[pid].user, payments[pid].plan,
                                n.paid, n.auth, TRUE, 1, "approved")

\* a provider route whose create_payment call binds: pending entry, then the invoice; when
\* the invoice fails (ext = NoExt) the entry is cancelled, else its external_id is set
ProviderRoute(op, m, u, p, ext) ==
    LET final_price == calculate_price_with_method(PlanPrice[p], PaymentMethods[m])
        created == PaymentDAL_create_payment(payments, u, p, m, final_price, NoExt, "pending")
        id      == Len(created)
        c       == PaymentDAL_cancel_payment(created, id, now)
        upd     == PaymentDAL_update_payment(created, id, [external_id |-> ext])
    IN  /\ payments' = IF ext = NoExt THEN c.db ELSE upd.db
        /\ returned' = Append(returned, IF ext = NoExt THEN "cancelled" ELSE "pending")
        /\ last' = Call(op, id, ext, u, p, FALSE, FALSE, ext # NoExt, 0,
                        IF ext = NoExt THEN "cancelled" ELSE "pending")

\* payments/tinkoff.py tinkoff_payment_route; ext = NoExt: invoice creation failed
tinkoff_payment_route(u, p, ext) ==
    /\ calls < MaxCalls
    /\ calls' = calls + 1
    /\ UNCHANGED <<tasks, quote>>
    /\ UNCHANGED <<subscriptions, now>>
    /\ IF BindOk(TinkoffRouteKwargs)
       THEN ProviderRoute("tinkoff_route", "tinkoff", u, p, ext)
       ELSE /\ last' = Dropped("tinkoff_route", FALSE, FALSE)
            /\ UNCHANGED <<payments, returned>>

\* payments/cryptobot.py cryptobot_payment_route; ext = NoExt: create_invoice gave "error"
cryptobot_payment_route(u, p, ext) ==
    /\ calls < MaxCalls
    /\ calls' = calls + 1
    /\ UNCHANGED <<tasks, quote>>
    /\ UNCHANGED <<subscriptions, now>>
    /\ IF BindOk(CryptoRouteKwargs)
       THEN ProviderRoute("crypto_route", "cryptobot", u, p, ext)
       ELSE /\ last' = Dropped("crypto_route", FALSE, FALSE)
            /\ UNCHANGED <<payments, returned>>

\* payments/stars.py handle_successful_payment: Telegram reports a paid Stars invoice
handle_successful_payment(u, p, ext) ==
    LET s == SubscriptionDAL_create_subscription(subscriptions, u, p, now)
    IN  /\ calls < MaxCalls
        /\ calls' = calls + 1
        /\ UNCHANGED <<tasks, quote>>
        /\ UNCHANGED now
        /\ IF BindOk(StarsKwargs)
           THEN /\ payments' = PaymentDAL_create_payment(payments, u, p, "stars",
                                                         stars_amount(p), ext, "approved")
                /\ returned' = Append(returned, "approved")
                /\ subscriptions' = s.db
                /\ last' = Call("stars", Len(payments) + 1, ext, u, p, TRUE, TRUE, TRUE, 1,
                                "approved")
           ELSE /\ last' = Dropped("stars", TRUE, TRUE)
                /\ UNCHANGED <<payments, subscriptions, returned>>

\* utils/join_request.py handle_join_request: a user asks to join the chat of a channel;
\* res: the request was approved.  fetchrow() hands back any one of the user's active rows.
handle_join_request(u, chat) ==
    LET hit == SubscriptionDAL_get_by_telegram_id(subscriptions, u)
    IN  /\ calls < MaxCalls
        /\ calls' = calls + 1
        /\ UNCHANGED <<tasks, quote>>
        /\ UNCHANGED <<payments, subscriptions, returned, now>>
        /\ IF chat = NoChannel \/ hit = {}
           THEN last' = [Call("join", NoPay, NoExt, u, 0, FALSE, FALSE, FALSE, 0, "none")
                           EXCEPT !.chat = chat]
           ELSE \E i \in hit :
                   last' = [Call("join", NoPay, NoExt, u, subscriptions[i].plan, FALSE, FALSE,
                                 check_user_channel_access(subscriptions, i, chat), 0, "none")
                              EXCEPT !.chat = chat]

\* webhook.py: status code of the endpoint's response, given the result of its handler
yoo_notify_status(result) == IF result THEN 200 ELSE 200
tinkoff_notify_status(result) == IF result THEN 200 ELSE 500
cryptobot_notify_status(result) == IF result THEN 200 ELSE 500

\* status code answered to the provider for a recorded notification call
HttpStatus(c) ==
    CASE c.op = "yoo" -> yoo_notify_status(c.res)
      [] c.op = "tinkoff" -> tinkoff_notify_status(c.res)
      [] c.op = "crypto" -> cryptobot_notify_status(c.res)

\* utils/cron_func.py check_expired_subscriptions: the daily sweep
check_expired_subscriptions ==
    /\ calls < MaxCalls
    /\ calls' = calls + 1
    /\ UNCHANGED <<tasks, quote>>
    /\ subscriptions' = DeactivateEach(subscriptions, Expired(subscriptions, now))
    /\ last' = Call("sweep", NoPay, NoExt, NoUser, 0, FALSE, FALSE, TRUE, 0, "none")
    /\ UNCHANGED <<payments, returned, now>>

----------------------------------------------------------------------------

\* payment ids a caller may name: the existing ones and one that does not exist
KnownIds == 1..(Len(payments) + 1)

YooNotifications ==
    [ext : ExtIds, user : Users \cup {NoUser}, plan : Plans, paid : BOOLEAN, auth : BOOLEAN]

OrderNotifications ==
    [order : KnownIds, ext : ExtIds, paid : BOOLEAN, auth : BOOLEAN]

Next ==
    \/ Tick
    \/ \E u \in Users, p \in Plans : process_payment_screenshot(u, p)
    \/ \E u \in Users, p \in Plans, ext \in ExtIds \cup {NoExt} : yookassa_payment_route(u, p, ext)
    \/ \E admin \in BOOLEAN, pid \in KnownIds, fail \in Failures :
          approve_payment(admin, pid, fail)
    \/ \E admin \in BOOLEAN, pid \in KnownIds : reject_payment(admin, pid)
    \/ \E u \in Users : cancel_payment_process(u)
    \/ \E u \in Users, p \in Plans, ext \in ExtIds \cup {NoExt} : tinkoff_payment_route(u, p, ext)
    \/ \E u \in Users, p \in Plans, ext \in ExtIds \cup {NoExt} :
          cryptobot_payment_route(u, p, ext)
    \/ \E u \in Users, p \in Plans, ext \in ExtIds : handle_successful_payment(u, p, ext)
    \/ \E u \in Users, chat \in Channels \cup {NoChannel} : handle_join_request(u, chat)
    \/ \E n \in YooNotifications, fail \in Failures : yoo_notify(n, fail)
    \/ \E n \in OrderNotifications : tinkoff_notify(n)
    \/ \E n \in OrderNotifications : cryptobot_notify(n)
    \/ check_expired_subscriptions

Spec == Init /\ [][Next]_vars

----------------------------------------------------------------------------
(* Tasks: handlers that are suspended at every await of a database call *)

MaxTasks == 2

\* the subscription a create_subscription call handed back to its caller
NoSub == [id |-> 0, end_date |-> NoTime]

\* kind: "yoo" process_payment_notification, "sweep" check_expired_subscriptions
\* pid: payment found or created; hit, hit_end: id and end_date of existing_subscription;
\* got: subscription_result; expired: rows of expired_subscriptions still to visit;
\* swept: rows for which deactivate_subscription has run
Task(kind, pc, n) ==
    [kind |-> kind, pc |-> pc, ext |-> n.ext, user |-> n.user, plan |-> n.plan,
     pid |-> NoPay, hit |-> 0, hit_end |-> NoTime, got |-> NoSub,
     expired |-> {}, swept |-> {}]

NoNotification == [ext |-> NoExt, user |-> NoUser, plan |-> 0]

\* paid notifications that pass the handler's checks of event, status and metadata
PaidNotifications == [ext : ExtIds, user : Users, plan : Plans]

At(k, kind, pc) == k \in DOMAIN tasks /\ tasks[k].kind = kind /\ tasks[k].pc = pc

Quiet == UNCHANGED <<now, calls, last, quote>>

\* webhook.py yoo_notify: aiohttp starts a handler for a POST on /yookassa
yoo_notify_received(n) ==
    /\ Len(tasks) < MaxTasks
    /\ tasks' = Append(tasks, Task("yoo", "lookup", n))
    /\ UNCHANGED <<payments, subscriptions, returned>>
    /\ Quiet

\* __main__.py on_startup: the crontab fires check_expired_subscriptions
sweep_started ==
    /\ Len(tasks) < MaxTasks
    /\ \A k \in DOMAIN tasks : tasks[k].kind = "sweep" => tasks[k].pc = "done"
    /\ tasks' = Append(tasks, Task("sweep", "select", NoNotification))
    /\ UNCHANGED <<payments, subscriptions, returned>>
    /\ Quiet

\* payment = await PaymentDAL.get_by_external_id(payment_id)
yoo_get_by_external_id(k) ==
    /\ At(k, "yoo", "lookup")
    /\ tasks' = [tasks EXCEPT ![k].pid = PaymentDAL_get_by_external_id(payments, tasks[k].ext),
                              ![k].pc = "settle"]
    /\ UNCHANGED <<payments, subscriptions, returned>>
    /\ Quiet

\* if payment: await PaymentDAL.update_payment(...) else: await PaymentDAL.create_payment(...)
yoo_settle(k) ==
    LET t   == tasks[k]
        upd == PaymentDAL_update_payment(payments, t.pid,
                                         [status |-> "approved", processed_at |-> now])
    IN  /\ At(k, "yoo", "settle")
        /\ IF t.pid # NoPay
           THEN /\ payments' = upd.db
                /\ returned' = Returned(returned, t.pid, upd.row.status)
                /\ tasks' = [tasks EXCEPT ![k].pc = "existing"]
           ELSE /\ payments' = PaymentDAL_create_payment(payments, t.user, t.plan, "youkassa",
                                                         YooAmount(t.plan), t.ext,
                                                         "approved")
                /\ returned' = Append(returned, "approved")
                /\ tasks' = [tasks EXCEPT ![k].pid = Len(payments) + 1,
                                          ![k].pc = "existing"]
        /\ UNCHANGED subscriptions
        /\ Quiet

\* create_subscription: existing_subscription_result = await db.fetchrow(existing_subscription_query)
create_subscription_existing(k) ==
    LET t   == tasks[k]
        hit == ExistingActive(subscriptions, t.user, t.plan)
    IN  /\ At(k, "yoo", "existing")
        /\ IF hit # {}
           THEN tasks' = [tasks EXCEPT ![k].hit = FirstRow(hit),
                                      ![k].hit_end = subscriptions[FirstRow(hit)].end_date,
                                      ![k].pc = "extend"]
           ELSE tasks' = [tasks EXCEPT ![k].pc = "deactivate"]
        /\ UNCHANGED <<payments, subscriptions, returned>>
        /\ Quiet

\* create_subscription: result = await db.fetchrow(update_query)
create_subscription_extend(k) ==
    LET t     == tasks[k]
        after == [subscriptions EXCEPT ![t.hit].end_date = ExtendedEndDate(t.hit_end, t.plan),
                                       ![t.hit].is_active = TRUE]
    IN  /\ At(k, "yoo", "extend")
        /\ subscriptions' = Database_fetchrow(subscriptions, after)
        /\ tasks' = [tasks EXCEPT ![k].got = [id |-> t.hit, end_date |-> after[t.hit].end_date],
                                  ![k].pc = "done"]
        /\ UNCHANGED <<payments, returned>>
        /\ Quiet

\* create_subscription: await db.execute(deactivate_query)
create_subscription_deactivate(k) ==
    LET t == tasks[k]
    IN  /\ At(k, "yoo", "deactivate")
        /\ subscriptions' = Database_execute(subscriptions,
                                             DeactivateChannel(subscriptions, t.user, t.plan))
        /\ tasks' = [tasks EXCEPT ![k].pc = "insert"]
        /\ UNCHANGED <<payments, returned>>
        /\ Quiet

\* create_subscription: session.add(subscription); await session.commit()
create_subscription_insert(k) ==
    LET t   == tasks[k]
        new == SubscriptionRow(t.user, t.plan, NewStartDate(now), NewEndDate(now, t.plan), TRUE)
    IN  /\ At(k, "yoo", "insert")
        /\ subscriptions' = Append(subscriptions, new)
        /\ tasks' = [tasks EXCEPT ![k].got = [id |-> Len(subscriptions) + 1,
                                              end_date |-> new.end_date],
                                  ![k].pc = "done"]
        /\ UNCHANGED <<payments, returned>>
        /\ Quiet

\* expired_subscriptions = await SubscriptionDAL.get_expired_active()
sweep_get_expired_active(k) ==
    /\ At(k, "sweep", "select")
    /\ tasks' = [tasks EXCEPT ![k].expired = Expired(subscriptions, now),
                              ![k].pc = IF Expired(subscriptions, now) = {}
                                        THEN "done" ELSE "loop"]
    /\ UNCHANGED <<payments, subscriptions, returned>>
    /\ Quiet

\* for subscription in expired_subscriptions: await deactivate_subscription(subscription.id),
\* then the user is removed from the plan's channels and told the subscription expired
sweep_deactivate_subscription(k) ==
    LET t  == tasks[k]
        id == FirstRow(t.expired)
    IN  /\ At(k, "sweep", "loop")
        /\ subscriptions' = SubscriptionDAL_deactivate_subscription(subscriptions, id).db
        /\ tasks' = [tasks EXCEPT ![k].expired = t.expired \ {id},
                                  ![k].swept = t.swept \cup {id},
                                  ![k].pc = IF t.expired = {id} THEN "done" ELSE "loop"]
        /\ UNCHANGED <<payments, returned>>
        /\ Quiet

TaskIds == 1..MaxTasks

TasksNext ==
    \/ \E n \in PaidNotifications : yoo_notify_received(n)
    \/ sweep_started
    \/ \E k \in TaskIds : yoo_get_by_external_id(k)
    \/ \E k \in TaskIds : yoo_settle(k)
    \/ \E k \in TaskIds : create_subscription_existing(k)
    \/ \E k \in TaskIds : create_subscription_extend(k)
    \/ \E k \in TaskIds : create_subscription_deactivate(k)
    \/ \E k \in TaskIds : create_subscription_insert(k)
    \/ \E k \in TaskIds : sweep_get_expired_active(k)
    \/ \E k \in TaskIds : sweep_deactivate_subscription(k)

SpecTasks == Init /\ [][TasksNext]_vars

----------------------------------------------------------------------------
(* Prices: the user has chosen a plan and a payment method, the handler     *)
(* computes the amount to pay.                                              *)

\* plan prices, price modifiers (tenths of a percent) and fixed fees (hundredths) an admin
\* may have stored, and codes of currencies
BasePrices == {1, 999, 1000}
Modifiers == {0, 28, 35, 125}
Fees == {0, 5, 50}
Currencies == {"RUB", "STARS", "BTC"}

\* decimals the code stores a price of the currency with (init_default_prices_for_tariff)
CurrencyDecimals == [RUB |-> 2, STARS |-> 0, BTC |-> 8]

Quotes ==
    [base_price : BasePrices,
     method : {Method(m, f) : m \in Modifiers, f \in Fees} \cup {NoMethod},
     currency : Currencies,
     price : {NoPrice}]

InitPrice ==
    /\ payments = <<>>
    /\ returned = <<>>
    /\ subscriptions = <<>>
    /\ now = DayLen
    /\ calls = 0
    /\ last = NoCall
    /\ tasks = <<>>
    /\ quote \in Quotes

\* handlers/subscription.py process_payment_method: final_price = calculate_price_with_method(...)
process_payment_method ==
    /\ quote.price = NoPrice
    /\ quote' = [quote EXCEPT !.price = calculate_price_with_method(quote.base_price,
                                                                   quote.method)]
    /\ UNCHANGED <<payments, subscriptions, returned, now, calls, last, tasks>>

PriceNext == process_payment_method

SpecPrice == InitPrice /\ [][PriceNext]_vars


----------------------------------------------------------------------------
(* Vocabulary of the properties *)

Terminal == {"approved", "rejected", "cancelled"}

Notifiers == {"yoo", "tinkoff", "crypto"}

\* active rows of user u that grant channel c
ActiveOn(S, u, c) ==
    {i \in DOMAIN S : S[i].user = u /\ S[i].is_active /\ PlanChannel[S[i].plan] = c}

\* rows of user u that grant channel c
RowsOn(S, u, c) == {i \in DOMAIN S : S[i].user = u /\ PlanChannel[S[i].plan] = c}

\* the last call was a paid, authentic provider notification naming an existing ledger entry
PaidNotificationFor(c, st) ==
    /\ c.op \in Notifiers
    /\ c.paid
    /\ c.auth
    /\ c.pid \in DOMAIN c.pays0
    /\ c.pays0[c.pid].status \in st

SameNotification(a, b) ==
    /\ a.op = b.op
    /\ a.pid = b.pid
    /\ a.ext = b.ext
    /\ a.user = b.user
    /\ a.plan = b.plan
    /\ a.paid = b.paid
    /\ a.auth = b.auth

----------------------------------------------------------------------------
(* C1 - idempotent settlement.  When a provider's paid notification is      *)
(* handled twice in a row, the entry it names is approved and is the only   *)
(* entry with its external id, the second call returns true and adds no     *)
(* further creation or extension, the first call having made exactly one.   *)

C1_IdempotentSettlement ==
    [][(/\ calls' = calls + 1
        /\ last.op \in Notifiers
        /\ last.paid
        /\ last.auth
        /\ last.pid \in DOMAIN payments
        /\ SameNotification(last, last'))
       => (/\ last'.res
           /\ payments'[last.pid].status = "approved"
           /\ (last.ext # NoExt =>
                 Cardinality({i \in DOMAIN payments' :
                                 payments'[i].external_id = last.ext}) = 1)
           /\ subscriptions' = subscriptions
           /\ subscriptions # last.subs0)]_vars

(* C2 - ledger terminality.  No step moves a ledger entry out of approved,  *)
(* rejected or cancelled.                                                   *)

C4_ApproveIdempotent ==
    (/\ last.op = "approve"
     /\ last.res
     /\ last.pays0[last.pid].status = "approved")
    => payments[last.pid] = last.pays0[last.pid]

(* C5 - approve on an entry that was rejected or cancelled fails: the row   *)
(* is unchanged and no subscription is created or extended.  The entry's    *)
(* state is the one the ledger last reported for it.                        *)

C5_ApproveAfterOtherTerminal ==
    (/\ last.op = "approve"
     /\ last.auth
     /\ last.pid \in DOMAIN last.returned0
     /\ last.returned0[last.pid] \in {"rejected", "cancelled"})
    => (/\ ~last.res
        /\ payments = last.pays0
        /\ subscriptions = last.subs0)

(* C6 - renewal accrual.  create_subscription for a user with an active row *)
(* on the plan's channel, end_date D, leaves that row with end_date D + N   *)
(* days and adds no row.                                                    *)

C6_RenewalAccrual ==
    (/\ last.act = 1
     /\ ActiveOn(last.subs0, last.user, PlanChannel[last.plan]) # {})
    => (/\ Len(subscriptions) = Len(last.subs0)
        /\ \A i \in ActiveOn(last.subs0, last.user, PlanChannel[last.plan]) :
              subscriptions[i].end_date =
                 last.subs0[i].end_date + PlanDuration[last.plan] * DayLen)

(* C7 - lapsed renewal reset.  create_subscription for a user whose only    *)
(* row on the channel is inactive and ended in the past yields an active    *)
(* row ending at 23:59:59 of the day now + N days, not stale end + N days.  *)

Lapsed(S, u, p, t) ==
    /\ Cardinality(RowsOn(S, u, PlanChannel[p])) = 1
    /\ \A i \in RowsOn(S, u, PlanChannel[p]) : ~S[i].is_active /\ S[i].end_date < t

C8_NoUnverifiedActedUpon ==
    (last.op \in Notifiers /\ ~last.auth)
    => (payments = last.pays0 /\ subscriptions = last.subs0)

(* C9 - a paid notification naming an entry that is already terminal        *)
(* returns true and changes neither the ledger nor the subscriptions.       *)

C9_DedupShortCircuit ==
    PaidNotificationFor(last, Terminal)
    => (/\ last.res
        /\ payments = last.pays0
        /\ subscriptions = last.subs0)

(* C10 - a verified paid notification naming a pending entry returns true   *)
(* with the entry approved and its user holding an active subscription on   *)
(* the plan's channel.                                                      *)

C10_SettlementResponse ==
    PaidNotificationFor(last, {"pending"})
    => (/\ last.res
        /\ payments[last.pid].status = "approved"
        /\ ActiveOn(subscriptions, last.pays0[last.pid].user,
                    PlanChannel[last.pays0[last.pid].plan]) # {})

(* C11 - no rollback after approval.  When the handler has approved the     *)
(* ledger entry and a later step fails (create_subscription raises, or the  *)
(* unban / the notification of the user raises), the entry is approved in   *)
(* the ledger once the handler has ended.                                   *)

C11_NoRollbackAfterApproval ==
    (/\ last.op \in {"approve", "yoo"}
     /\ last.fail # "none"
     /\ last.seen = "approved")
    => (/\ last.pid \in DOMAIN payments
        /\ payments[last.pid].status = "approved")

\* an entry that was not approved before the call is approved after a call whose
\* activation or notification step failed
C11_Witness ==
    /\ last.op \in {"approve", "yoo"}
    /\ last.fail # "none"
    /\ last.pid \in DOMAIN payments
    /\ payments[last.pid].status = "approved"
    /\ (last.pid \in DOMAIN last.pays0 => last.pays0[last.pid].status = "pending")

(* C12 - expiry sweep.  After the sweep has run at time now, every row that *)
(* was active with end_date < now is inactive, and every other row and      *)
(* every other field is as before.                                          *)

C12_ExpirySweep ==
    last.op = "sweep"
    => (/\ Len(subscriptions) = Len(last.subs0)
        /\ \A i \in DOMAIN last.subs0 :
              IF last.subs0[i].is_active /\ last.subs0[i].end_date < last.at
              THEN subscriptions[i] = [last.subs0[i] EXCEPT !.is_active = FALSE]
              ELSE subscriptions[i] = last.subs0[i])

(* C15 - reject mirrors approve.  An admin reject of a pending entry stores *)
(* status rejected with processed_at; of an entry already rejected it       *)
(* leaves the row as it was; of an approved or cancelled entry it fails and *)
(* changes nothing.                                                         *)

C15_RejectContract ==
    (/\ last.op = "reject"
     /\ last.auth
     /\ last.pid \in DOMAIN last.pays0)
    => LET before == last.pays0[last.pid]
       IN  /\ before.status = "pending" =>
                /\ last.res
                /\ payments[last.pid].status = "rejected"
                /\ payments[last.pid].processed_at = last.at
           /\ before.status = "rejected" =>
                /\ last.res
                /\ payments = last.pays0
           /\ before.status \in {"approved", "cancelled"} =>
                /\ ~last.res
                /\ payments = last.pays0

(* C16 - every ledger entry starts pending: whichever handler adds a row to *)
(* the ledger, the row's first stored status is pending.                    *)

C16_StartsPending ==
    [][\A i \in DOMAIN payments' :
          i \notin DOMAIN payments => payments'[i].status = "pending"]_vars

(* C17 - activation only after approval.  Whenever a handler has run        *)
(* create_subscription(user, plan), the ledger holds an approved entry of   *)
(* that user for that plan.                                                 *)

C17_ActivationAfterApproval ==
    last.act = 1
    => \E i \in DOMAIN payments :
          /\ payments[i].user = last.user
          /\ payments[i].plan = last.plan
          /\ payments[i].status = "approved"

(* C18 - access decision.  A join request of a user for a channel is        *)
(* approved exactly when the user holds an active subscription whose plan   *)
(* is bound to that channel, and the decision leaves the tables untouched.  *)

C18_AccessDecision ==
    last.op = "join"
    => (/\ last.res <=> ActiveOn(subscriptions, last.user, last.chat) # {}
        /\ payments = last.pays0
        /\ subscriptions = last.subs0)

(* C19 - invoice-creation failure cancels the pending entry.  When a        *)
(* provider route has stored its pending entry and the provider then fails  *)
(* to create the invoice, the entry is cancelled.                           *)

ProviderRoutes == {"yoo_route", "tinkoff_route", "crypto_route"}

C19_InvoiceFailureCancels ==
    (/\ last.op \in ProviderRoutes
     /\ last.pid \in DOMAIN payments
     /\ last.ext = NoExt)
    => payments[last.pid].status = "cancelled"

(* C20 - user cancellation.  When a user who has a pending provider payment *)
(* presses Cancel, a pending provider payment of that user is cancelled.    *)

PendingProviderPayments(P, u) ==
    {i \in DOMAIN P : P[i].user = u /\ P[i].status = "pending" /\ P[i].method # "manual"}

C20_UserCancellation ==
    (/\ last.op = "cancel"
     /\ PendingProviderPayments(last.pays0, last.user) # {})
    => \E i \in PendingProviderPayments(last.pays0, last.user) :
          payments[i].status = "cancelled"

(* C13 - the sweep is safe against a concurrent activation.  Whenever the   *)
(* sweep deactivates a row, the row's end_date is before now at that        *)
(* moment, the end_date being the one the table holds and the one any       *)
(* create_subscription call has handed back for the row: a row an           *)
(* activation has just extended into the future is not deactivated.         *)

C14_DuplicateTolerated ==
    \A j, k \in DOMAIN tasks :
       (/\ j < k
        /\ At(j, "yoo", "done")
        /\ At(k, "yoo", "done")
        /\ tasks[j].ext = tasks[k].ext
        /\ tasks[j].user = tasks[k].user
        /\ tasks[j].plan = tasks[k].plan)
       => (/\ Cardinality({i \in DOMAIN payments :
                              payments[i].external_id = tasks[j].ext}) = 1
           /\ \A i \in DOMAIN payments :
                 payments[i].external_id = tasks[j].ext => payments[i].status = "approved"
           /\ Cardinality({t \in {j, k} : tasks[t].got # NoSub}) = 1)

(* C21 - webhook acknowledgement.  A well-formed, authentic notification    *)
(* that is uninteresting (not a paid status) or a duplicate (it names an    *)
(* entry already terminal) is answered with status 200.                     *)

C21_WebhookAck ==
    (/\ last.op \in Notifiers
     /\ last.auth
     /\ (~last.paid \/ PaidNotificationFor(last, Terminal)))
    => HttpStatus(last) = 200

(* C24 - price computation.  The final price is                             *)
(* basePrice * (1 + price_modifier/100) + fixed_fee rounded at the          *)
(* granularity of the payment's currency: 2 decimals for a fiat currency,   *)
(* 0 for an integral one such as stars, 8 for a high-precision crypto one.  *)

C24_PriceComputation ==
    (quote.price # NoPrice /\ quote.method # NoMethod)
    => quote.price = RoundHalfEven(ModifiedPrice(quote.base_price, quote.method),
                                   Granule(CurrencyDecimals[quote.currency]))

(* C22 - manual payment approval.  A user without a subscription on the     *)
(* plan's channel has submitted a manual payment for a plan of price P and  *)
(* duration N days (modifier 0, fee 0) and an admin approves it (nothing    *)
(* raises in create_subscription).  Then that ledger entry, and no new one, *)
(* is approved with amount P, and the user holds exactly one active         *)
(* subscription on the channel, from 00:00:00 of today to 23:59:59 of       *)
(* today + N days.                                                          *)

\* the last call was an admin's approve of a pending manual payment of a user without rows
\* on the plan's channel
ManualApprovalOfNewcomer ==
    /\ last.op = "approve"
    /\ last.auth
    /\ last.fail # "activate"
    /\ last.pid \in DOMAIN last.pays0
    /\ last.pays0[last.pid].method = "manual"
    /\ last.pays0[last.pid].status = "pending"
    /\ RowsOn(last.subs0, last.pays0[last.pid].user,
              PlanChannel[last.pays0[last.pid].plan]) = {}

InactiveUnexpired(c) ==
    {i \in RowsOn(c.subs0, c.user, PlanChannel[c.plan]) :
        ~c.subs0[i].is_active /\ c.subs0[i].end_date > c.at}

C23_Reactivation ==
    (/\ last.act = 1
     /\ last.user \in Users
     /\ ActiveOn(last.subs0, last.user, PlanChannel[last.plan]) = {}
     /\ InactiveUnexpired(last) # {})
    => /\ Len(subscriptions) = Len(last.subs0)
       /\ \E i \in InactiveUnexpired(last) :
             /\ subscriptions[i].is_active
             /\ subscriptions[i].end_date =
                   ((last.subs0[i].end_date + PlanDuration[last.plan] * DayLen) \div DayLen)
                      * DayLen + (DayLen - 1)

(* C25 - at most one settlement per manual payment.  When an admin's        *)
(* approve has activated the subscription for a payment, a further approve  *)
(* of the same payment does not run create_subscription again.              *)

C26_CreditsThePayer ==
    (/\ last.op \in Notifiers \cup {"approve"}
     /\ last.act = 1
     /\ last.pid \in DOMAIN last.pays0)
    => /\ last.user = last.pays0[last.pid].user
       /\ last.plan = last.pays0[last.pid].plan

(* C27 - the idempotency key is unique.  In every reachable state, also     *)
(* when duplicate notifications are handled interleaved before any local    *)
(* row exists, no two ledger entries carry the same non-null external_id.   *)

C27_UniqueExternalId ==
    \A i, j \in DOMAIN payments :
        (i # j /\ payments[i].external_id # NoExt)
        => payments[i].external_id # payments[j].external_id

(* C28 - a paid-for subscription is usable.  Immediately after every        *)
(* successful create_subscription(user, plan) the user holds an active      *)
(* subscription on the plan's channel whose end_date is later than now,     *)
(* also when the row found was flagged active although it had expired.      *)

C30_DurableMutations ==
    /\ \A i \in DOMAIN payments : payments[i].status = returned[i]
    /\ (/\ last.act = 1
        /\ last.user \in Users
        /\ ActiveOn(last.subs0, last.user, PlanChannel[last.plan]) # {})
       => \E i \in ActiveOn(last.subs0, last.user, PlanChannel[last.plan]) :
             subscriptions[i].end_date > last.subs0[i].end_date

====
